---- MODULE Spec2Model ----
(***************************************************************************)
(* Migration engine (src/background/migration.ts) and settings manager     *)
(* (src/shared/lib/setting.ts) of the Chrome extension starter, over the   *)
(* chrome.storage key-value backend they share.                            *)
(*                                                                         *)
(* A JavaScript string holding a version is represented by the list of its *)
(* '.'-separated segments, each segment being the list of its characters:  *)
(* "1.2.0" is << <<"1">>, <<"2">>, <<"0">> >> and "" is << <<>> >>.        *)
(* A stored JavaScript value is a record [k |-> kind, v |-> payload].      *)
(***************************************************************************)
EXTENDS Integers, Sequences, FiniteSets, TLC

\* ---------------------------------------------------------------- bounds
MaxCalls == 2
MaxEngineCalls == 3
MaxFaults == 1
MaxUpdates == 1
MaxPageCalls == 1

\* ---------------------------------------------------------------- values
Undefined == [k |-> "undef", v |-> 0]
Null == [k |-> "null", v |-> 0]
Str(s) == [k |-> "str", v |-> s]
Num(n) == [k |-> "num", v |-> n]
Bool(b) == [k |-> "bool", v |-> b]
Obj(o) == [k |-> "obj", v |-> o]

EmptyString == << <<>> >>

\* JavaScript ToBoolean, as applied by `||` and `!`
Truthy(x) ==
    CASE x.k = "undef" -> FALSE
      [] x.k = "null" -> FALSE
      [] x.k = "str" -> x.v # EmptyString
      [] x.k = "num" -> x.v # 0
      [] x.k = "bool" -> x.v
      [] OTHER -> TRUE

\* typeof x === 'string'
IsString(x) == x.k = "str"

\* typeof x === 'object' for the values of the model (null excluded by `raw &&`)
IsObject(x) == x.k = "obj"

\* ------------------------------------------------------- version strings
V_1_0_0 == << <<"1">>, <<"0">>, <<"0">> >>
V_1_1_0 == << <<"1">>, <<"1">>, <<"0">> >>
V_1_2_0 == << <<"1">>, <<"2">>, <<"0">> >>
V_1_2 == << <<"1">>, <<"2">> >>
V_2_0_0 == << <<"2">>, <<"0">>, <<"0">> >>
V_invalid == << <<"v", "1">>, <<"1", "0", "b">>, <<"-", "1">> >>

V_0_0_0 == << <<"0">>, <<"0">>, <<"0">> >>
V_1_2_1 == << <<"1">>, <<"2">>, <<"1">> >>
V_1_10_0 == << <<"1">>, <<"1", "0">>, <<"0">> >>
V_word == << <<"i", "n", "v", "a", "l", "i", "d">> >>

IsDigit(c) == c \in {"0", "1", "2", "3", "4", "5", "6", "7", "8", "9"}

DigitVal(c) ==
    CASE c = "0" -> 0 [] c = "1" -> 1 [] c = "2" -> 2 [] c = "3" -> 3
      [] c = "4" -> 4 [] c = "5" -> 5 [] c = "6" -> 6 [] c = "7" -> 7
      [] c = "8" -> 8 [] c = "9" -> 9

NaN == [nan |-> TRUE, n |-> 0]
Number(n) == [nan |-> FALSE, n |-> n]

RECURSIVE ParseDigits(_, _, _)
ParseDigits(s, i, acc) ==
    IF i > Len(s) \/ ~IsDigit(s[i]) THEN acc
    ELSE ParseDigits(s, i + 1, acc * 10 + DigitVal(s[i]))

\* parseInt(s, 10): optional sign, then the longest run of decimal digits;
\* NaN when there is no digit
parseInt(s) ==
    LET signed == Len(s) >= 1 /\ s[1] \in {"+", "-"}
        first == IF signed THEN 2 ELSE 1
        sign == IF signed /\ s[1] = "-" THEN -1 ELSE 1
    IN IF first > Len(s) \/ ~IsDigit(s[first]) THEN NaN
       ELSE Number(sign * ParseDigits(s, first, 0))

\* x || 0 for a number x
OrZero(x) == IF x.nan \/ x.n = 0 THEN 0 ELSE x.n

parseVersion(version) ==
    [i \in 1..Len(version) |-> OrZero(parseInt(version[i]))]

\* Math.max replaced by the length of the first argument
Max_first(a, b) == a

Max(a, b) == IF a > b THEN a ELSE b

\* PartOrZero where a missing part counts below every number
PartOrZero_missingIsLowest(parts, i) == IF i <= Len(parts) THEN parts[i] ELSE -1

\* aParts[i] || 0, with i counted from 1
PartOrZero(parts, i) == IF i <= Len(parts) THEN parts[i] ELSE 0

RECURSIVE CompareFrom(_, _, _, _)
CompareFrom(aParts, bParts, i, maxLen) ==
    IF i > maxLen THEN 0
    ELSE LET aVal == PartOrZero(aParts, i)
             bVal == PartOrZero(bParts, i)
         IN IF aVal < bVal THEN -1
            ELSE IF aVal > bVal THEN 1
            ELSE CompareFrom(aParts, bParts, i + 1, maxLen)

compareVersions(a, b) ==
    LET aParts == parseVersion(a)
        bParts == parseVersion(b)
        maxLen == Max(Len(aParts), Len(bParts))
    IN CompareFrom(aParts, bParts, 1, maxLen)

\* --------------------------------------------------------------- backend
Areas == {"sync", "local"}

\* kv.get(area, key) without fallback: the stored value, undefined if absent
KvGet(st, area, key) == st[area][key]

\* kv.set(area, key, value)
KvSet(st, area, key, value) == [st EXCEPT ![area][key] = value]

\* kv.setAll(area, data): every key of data in one call
KvSetAll(st, area, data) ==
    [st EXCEPT ![area] =
        [key \in DOMAIN st[area] |->
            IF key \in DOMAIN data THEN data[key] ELSE st[area][key]]]

EmptyStore ==
    [sync |-> [version |-> Undefined, settings |-> Undefined],
     local |-> [darkMode |-> Undefined, username |-> Undefined]]

\* ------------------------------------------------------------- registry
\* the settings object the 1.1.0 migration writes
MigrationSettings == Obj("notificationsAutoSync")

\* the registry as declared: the body names the migrate function of the entry
migrations ==
    << [version |-> V_1_0_0, body |-> "defaults"],
       [version |-> V_1_1_0, body |-> "structure"],
       [version |-> V_1_2_0, body |-> "cleanup"] >>

\* the same entries declared out of version order
migrationsUnordered ==
    << [version |-> V_1_1_0, body |-> "structure"],
       [version |-> V_1_2_0, body |-> "cleanup"],
       [version |-> V_1_0_0, body |-> "defaults"] >>

\* a registry whose 1.2.0 entry is written in the declarative style: its
\* migrate makes no kv call and returns the updates to apply
migrationsDeclarative ==
    << [version |-> V_1_0_0, body |-> "defaults"],
       [version |-> V_1_1_0, body |-> "structure"],
       [version |-> V_1_2_0, body |-> "declared"] >>

\* what the "declared" migrate returns: per area, keys with their new values,
\* undefined for a key to delete
DeclaredResult ==
    [sync |-> [settings |-> Obj("restructured")],
     local |-> [darkMode |-> Undefined]]

Registries == {migrations, migrationsUnordered}

\* the first backend call a migrate body awaits; "return" when it awaits none
FirstOp(body) ==
    CASE body = "defaults" -> "getDarkMode"
      [] body = "structure" -> "getSettings"
      [] OTHER -> "return"

\* --------------------------------------------------------------- inputs
ManifestVersions == {V_1_1_0, V_1_2_0, V_1_2}
ManagerVersions == {V_1_1_0, V_1_2_0}

InitMarkers ==
    {Undefined, Str(V_1_0_0), Str(V_1_1_0), Str(V_1_2_0), Str(V_1_2),
     Str(V_2_0_0), Str(EmptyString), Num(7)}

UserSettings == Obj("user")
DefaultSettings == Obj("defaults")

InitSettings == {Undefined, UserSettings, Num(5)}
InitDarkMode == {Undefined, Bool(TRUE)}

RollbackTargets == {V_1_0_0, V_1_1_0}

Procs == {1, 2}

\* ---------------------------------------------------------------- state
VARIABLES
    store,            \* chrome.storage contents, by area and key
    manifestVersion,  \* chrome.runtime.getManifest().version
    managerVersion,   \* SettingManager.currentVersion (constructor argument)
    registry,         \* the migrations array
    calls,            \* per context: the invocation in progress, with its locals
    last,             \* the invocation that settled most recently
    budget,           \* invocations that may still be started
    faults,           \* backend calls that have failed
    updates           \* extension updates installed

vars == <<store, manifestVersion, managerVersion, registry, calls, last,
          budget, faults, updates>>

NoLast == [op |-> "none", outcome |-> "none", currentVersion |-> EmptyString,
           store |-> EmptyStore]

\* an invocation: op and pc name the function and the backend call it awaits;
\* ran/completed/wlog/writes/startStore/prev record what it has done
IdleCall ==
    [op |-> "idle", pc |-> "idle", outcome |-> "none", error |-> "none",
     thrown |-> "none", result |-> Undefined, arg |-> Undefined,
     currentVersion |-> EmptyString, storedVersion |-> Undefined,
     branch |-> "none", idx |-> 0, ran |-> <<>>, completed |-> <<>>,
     via |-> "none", raw |-> Undefined, current |-> Undefined,
     wlog |-> <<>>, writes |-> 0, startStore |-> EmptyStore, prev |-> NoLast]

\* the backend as an earlier release, or the user, may have left it
InitStores ==
    {[sync |-> [version |-> marker, settings |-> settings],
      local |-> [darkMode |-> dark, username |-> Undefined]] :
        marker \in InitMarkers, settings \in InitSettings, dark \in InitDarkMode}

\* the migration engine alone, over every registry
InitEngine ==
    /\ store \in InitStores
    /\ manifestVersion \in ManifestVersions
    /\ managerVersion = V_1_2_0
    /\ registry \in Registries
    /\ calls = [p \in Procs |-> IdleCall]
    /\ last = NoLast
    /\ budget = MaxEngineCalls
    /\ faults = 0
    /\ updates = 0

\* the engine and the settings manager of one extension, on a backend whose
\* local area is still empty
Init ==
    /\ store \in {st \in InitStores : st.local.darkMode = Undefined}
    /\ manifestVersion \in ManifestVersions
    /\ managerVersion \in ManagerVersions
    /\ registry = migrations
    /\ calls = [p \in Procs |-> IdleCall]
    /\ last = NoLast
    /\ budget = MaxCalls
    /\ faults = 0
    /\ updates = 0

\* a new invocation may start in context p
CanCall(p) ==
    /\ calls[p].pc \in {"idle", "done"}
    /\ budget > 0

NewCall(op, pc) ==
    [IdleCall EXCEPT !.op = op, !.pc = pc, !.outcome = "pending",
                     !.startStore = store, !.prev = last]

\* the backend call p awaits fails (chrome.runtime.lastError set)
FailChoices == IF faults < MaxFaults THEN {FALSE, TRUE} ELSE {FALSE}

Summary(c, st) ==
    [op |-> c.op, outcome |-> c.outcome, currentVersion |-> c.currentVersion,
     store |-> st]

\* a write call that was applied to the backend
Logged(c, area, data) ==
    [c EXCEPT !.writes = @ + 1, !.wlog = Append(@, [area |-> area, data |-> data])]

\* a write call that failed
NotLogged(c) == [c EXCEPT !.writes = @ + 1]

Resolve(c, result) ==
    [c EXCEPT !.pc = "done", !.outcome = "resolved", !.result = result, !.idx = 0]

Reject(c, error) ==
    [c EXCEPT !.pc = "done", !.outcome = "rejected", !.error = error]

\* ------------------------------------------------------ migration engine
getCurrentVersion == manifestVersion

\* (await kv.get('sync', 'version')) || null
getStoredVersion(st) ==
    LET v == KvGet(st, "sync", "version") IN IF Truthy(v) THEN v ELSE Null

\* SelectedFresh without the version filter
SelectedFresh_all(version, currentVersion) == TRUE

\* fresh install: the entry is run iff its version is <= current
SelectedFresh(version, currentVersion) ==
    compareVersions(version, currentVersion) <= 0

\* SelectedUpgrade skipping only the entries strictly below the stored version
SelectedUpgrade_rerunsStored(version, storedVersion, currentVersion) ==
    /\ ~(compareVersions(version, storedVersion) < 0)
    /\ ~(compareVersions(version, currentVersion) > 0)

\* upgrade: entries <= stored and entries > current are skipped
SelectedUpgrade(version, storedVersion, currentVersion) ==
    /\ ~(compareVersions(version, storedVersion) <= 0)
    /\ ~(compareVersions(version, currentVersion) > 0)

Selected(c, version) ==
    IF c.branch = "fresh" THEN SelectedFresh(version, c.currentVersion)
    ELSE SelectedUpgrade(version, c.storedVersion.v, c.currentVersion)

\* IterationOrder over the registry sorted by version first
IterationOrder_sorted(reg) ==
    CHOOSE f \in [1..Len(reg) -> 1..Len(reg)] :
        /\ \A i, j \in 1..Len(reg) : i # j => f[i] # f[j]
        /\ \A i, j \in 1..Len(reg) :
              i < j => compareVersions(reg[f[i]].version, reg[f[j]].version) <= 0

\* the order in which the for-loop visits the registry
IterationOrder(reg) == [i \in 1..Len(reg) |-> i]

\* Rethrow throwing a new error in place of the one caught
Rethrow_wrapped(error) == "MigrationError"

\* catch (error) { ...; throw error }
Rethrow(error) == error

\* AfterCatch that records the current version although the run failed
AfterCatch_marksVersion(c, st) == KvSet(st, "sync", "version", Str(c.currentVersion))

\* AfterCatch restoring the backend of the start of the run
AfterCatch_rollback(c, st) == c.startStore

\* the backend after the catch block: it logs and rethrows, and undoes nothing
AfterCatch(c, st) == st

\* the for-loop from position k of the iteration on, up to the next await:
\* entries not selected are skipped, a body without backend calls runs
\* through, and after the last entry the version write is issued
RECURSIVE RunLoop(_, _, _)
RunLoop(c, reg, k) ==
    IF k > Len(reg) THEN [c EXCEPT !.pc = "setVersion", !.idx = 0]
    ELSE LET i == IterationOrder(reg)[k] IN
         IF ~Selected(c, reg[i].version) THEN RunLoop(c, reg, k + 1)
         ELSE LET started == [c EXCEPT !.ran = Append(@, i), !.idx = k] IN
              IF FirstOp(reg[i].body) = "return"
              THEN RunLoop([started EXCEPT !.completed = Append(@, i)], reg, k + 1)
              ELSE [started EXCEPT !.pc = FirstOp(reg[i].body)]

\* the migrate() of the running entry has resolved
MigrationDone(c, reg) ==
    RunLoop([c EXCEPT !.completed = Append(@, IterationOrder(reg)[c.idx])],
            reg, c.idx + 1)

\* MigrationFailed logging the error and going on with the next entry
MigrationFailed_swallowed(c, error) ==
    RunLoop([c EXCEPT !.thrown = error], registry, c.idx + 1)

\* the migrate() of the running entry has rejected with error
MigrationFailed(c, error) ==
    Reject([c EXCEPT !.thrown = error], Rethrow(error))

\* AfterStoredVersion without the downgrade check
AfterStoredVersion_noDowngradeGuard(c, reg) ==
    LET storedVersion == c.storedVersion IN
    IF ~Truthy(storedVersion)
    THEN RunLoop([c EXCEPT !.branch = "fresh"], reg, 1)
    ELSE IF ~IsString(storedVersion)
    THEN Reject([c EXCEPT !.branch = "typeError"], "TypeError")
    ELSE IF compareVersions(storedVersion.v, c.currentVersion) = 0
    THEN Resolve([c EXCEPT !.branch = "same"], Undefined)
    ELSE RunLoop([c EXCEPT !.branch = "upgrade"], reg, 1)

\* AfterStoredVersion writing the marker again when already up to date
AfterStoredVersion_sameRewrites(c, reg) ==
    LET storedVersion == c.storedVersion IN
    IF ~Truthy(storedVersion)
    THEN RunLoop([c EXCEPT !.branch = "fresh"], reg, 1)
    ELSE IF ~IsString(storedVersion)
    THEN Reject([c EXCEPT !.branch = "typeError"], "TypeError")
    ELSE IF compareVersions(storedVersion.v, c.currentVersion) = 0
    THEN [c EXCEPT !.branch = "same", !.pc = "setVersion"]
    ELSE IF compareVersions(storedVersion.v, c.currentVersion) > 0
    THEN Resolve([c EXCEPT !.branch = "downgrade"], Undefined)
    ELSE RunLoop([c EXCEPT !.branch = "upgrade"], reg, 1)

\* AfterStoredVersion taking the fresh-install path when already up to date
AfterStoredVersion_sameRunsAll(c, reg) ==
    LET storedVersion == c.storedVersion IN
    IF ~Truthy(storedVersion)
       \/ (IsString(storedVersion)
           /\ compareVersions(storedVersion.v, c.currentVersion) = 0)
    THEN RunLoop([c EXCEPT !.branch = "fresh"], reg, 1)
    ELSE IF ~IsString(storedVersion)
    THEN Reject([c EXCEPT !.branch = "typeError"], "TypeError")
    ELSE IF compareVersions(storedVersion.v, c.currentVersion) > 0
    THEN Resolve([c EXCEPT !.branch = "downgrade"], Undefined)
    ELSE RunLoop([c EXCEPT !.branch = "upgrade"], reg, 1)

\* the code after `const storedVersion = await getStoredVersion()`, up to the
\* next await
AfterStoredVersion(c, reg) ==
    LET storedVersion == c.storedVersion IN
    IF ~Truthy(storedVersion)
    THEN RunLoop([c EXCEPT !.branch = "fresh"], reg, 1)
    ELSE IF ~IsString(storedVersion)
    THEN Reject([c EXCEPT !.branch = "typeError"], "TypeError")
    ELSE IF compareVersions(storedVersion.v, c.currentVersion) = 0
    THEN Resolve([c EXCEPT !.branch = "same"], Undefined)
    ELSE IF compareVersions(storedVersion.v, c.currentVersion) > 0
    THEN Resolve([c EXCEPT !.branch = "downgrade"], Undefined)
    ELSE RunLoop([c EXCEPT !.branch = "upgrade"], reg, 1)

\* the step of context p that takes it to c2 and the backend to st2
Step(p, c2, st2, failed) ==
    /\ calls' = [calls EXCEPT ![p] = c2]
    /\ store' = st2
    /\ faults' = IF failed THEN faults + 1 ELSE faults
    /\ last' = IF c2.pc = "done" THEN Summary(c2, st2) ELSE last
    /\ UNCHANGED <<manifestVersion, managerVersion, registry, budget, updates>>

\* context p starts an invocation, up to its first await
Call(p, c) ==
    /\ calls' = [calls EXCEPT ![p] = c]
    /\ budget' = budget - 1
    /\ UNCHANGED <<store, manifestVersion, managerVersion, registry, last,
                   faults, updates>>

\* the check of a migrate body that holds whatever the key holds
IsAbsent_always(value) == TRUE

\* the check of the migrate bodies before a default is written:
\* darkMode === undefined, username === undefined, settings === undefined
IsAbsent(value) == value = Undefined

\* runMigrations() is called: reads the manifest, awaits getStoredVersion()
runMigrations(p) ==
    /\ CanCall(p)
    /\ Call(p, [NewCall("runMigrations", "getStoredVersion")
                   EXCEPT !.currentVersion = getCurrentVersion])

\* the read of the version marker completes
runMigrations_getStoredVersion(p) ==
    LET c == calls[p] IN
    /\ c.op = "runMigrations" /\ c.pc = "getStoredVersion"
    /\ \E fail \in FailChoices :
          IF fail THEN Step(p, Reject(c, "BackendError"), store, TRUE)
          ELSE Step(p, AfterStoredVersion(
                          [c EXCEPT !.storedVersion = getStoredVersion(store)],
                          registry),
                    store, FALSE)

\* 1.0.0: const darkMode = await kv.get('local', 'darkMode')
migrate_getDarkMode(p) ==
    LET c == calls[p] IN
    /\ c.op = "runMigrations" /\ c.pc = "getDarkMode"
    /\ \E fail \in FailChoices :
          IF fail THEN Step(p, MigrationFailed(c, "BackendError"), AfterCatch(c, store), TRUE)
          ELSE IF IsAbsent(KvGet(store, "local", "darkMode"))
          THEN Step(p, [c EXCEPT !.pc = "setDarkMode"], store, FALSE)
          ELSE Step(p, [c EXCEPT !.pc = "getUsername"], store, FALSE)

\* 1.0.0: await kv.set('local', 'darkMode', false)
migrate_setDarkMode(p) ==
    LET c == calls[p] IN
    /\ c.op = "runMigrations" /\ c.pc = "setDarkMode"
    /\ \E fail \in FailChoices :
          IF fail
          THEN Step(p, MigrationFailed(NotLogged(c), "BackendError"), AfterCatch(c, store), TRUE)
          ELSE Step(p, [Logged(c, "local", [darkMode |-> Bool(FALSE)])
                           EXCEPT !.pc = "getUsername"],
                    KvSet(store, "local", "darkMode", Bool(FALSE)), FALSE)

\* 1.0.0: const username = await kv.get('local', 'username')
migrate_getUsername(p) ==
    LET c == calls[p] IN
    /\ c.op = "runMigrations" /\ c.pc = "getUsername"
    /\ \E fail \in FailChoices :
          IF fail THEN Step(p, MigrationFailed(c, "BackendError"), AfterCatch(c, store), TRUE)
          ELSE IF IsAbsent(KvGet(store, "local", "username"))
          THEN Step(p, [c EXCEPT !.pc = "setUsername"], store, FALSE)
          ELSE Step(p, MigrationDone(c, registry), store, FALSE)

\* 1.0.0: await kv.set('local', 'username', 'Guest')
migrate_setUsername(p) ==
    LET c == calls[p] IN
    /\ c.op = "runMigrations" /\ c.pc = "setUsername"
    /\ \E fail \in FailChoices :
          IF fail
          THEN Step(p, MigrationFailed(NotLogged(c), "BackendError"), AfterCatch(c, store), TRUE)
          ELSE Step(p, MigrationDone(
                          Logged(c, "local", [username |-> Str(<< <<"G", "u", "e", "s", "t">> >>)]),
                          registry),
                    KvSet(store, "local", "username", Str(<< <<"G", "u", "e", "s", "t">> >>)),
                    FALSE)

\* 1.1.0: const settings = await kv.get('sync', 'settings')
migrate_getSettings(p) ==
    LET c == calls[p] IN
    /\ c.op = "runMigrations" /\ c.pc = "getSettings"
    /\ \E fail \in FailChoices :
          IF fail THEN Step(p, MigrationFailed(c, "BackendError"), AfterCatch(c, store), TRUE)
          ELSE IF IsAbsent(KvGet(store, "sync", "settings"))
          THEN Step(p, [c EXCEPT !.pc = "setSettings"], store, FALSE)
          ELSE Step(p, MigrationDone(c, registry), store, FALSE)

\* 1.1.0: await kv.set('sync', 'settings', {notifications, autoSync})
migrate_setSettings(p) ==
    LET c == calls[p] IN
    /\ c.op = "runMigrations" /\ c.pc = "setSettings"
    /\ \E fail \in FailChoices :
          IF fail
          THEN Step(p, MigrationFailed(NotLogged(c), "BackendError"), AfterCatch(c, store), TRUE)
          ELSE Step(p, MigrationDone(
                          Logged(c, "sync", [settings |-> MigrationSettings]),
                          registry),
                    KvSet(store, "sync", "settings", MigrationSettings), FALSE)

\* await kv.set('sync', 'version', currentVersion), then return
runMigrations_setVersion(p) ==
    LET c == calls[p] IN
    /\ c.op = "runMigrations" /\ c.pc = "setVersion"
    /\ \E fail \in FailChoices :
          IF fail THEN Step(p, Reject(NotLogged(c), "BackendError"), store, TRUE)
          ELSE Step(p, Resolve(Logged(c, "sync", [version |-> Str(c.currentVersion)]),
                               Undefined),
                    KvSet(store, "sync", "version", Str(c.currentVersion)), FALSE)

\* rollbackVersion that also clears the data the later migrations wrote
RollbackStore_restoresData(st, targetVersion) ==
    [st EXCEPT !.sync = [version |-> targetVersion, settings |-> Undefined]]

\* rollbackVersion(): kv.set('sync', 'version', targetVersion) applied to the backend
RollbackStore(st, targetVersion) == KvSet(st, "sync", "version", targetVersion)

\* rollbackVersion(targetVersion) is called: awaits the marker write
rollbackVersion(p) ==
    /\ CanCall(p)
    /\ \E targetVersion \in RollbackTargets :
          Call(p, [NewCall("rollbackVersion", "setTarget")
                      EXCEPT !.arg = Str(targetVersion)])

\* await kv.set('sync', 'version', targetVersion), then return
rollbackVersion_set(p) ==
    LET c == calls[p] IN
    /\ c.op = "rollbackVersion" /\ c.pc = "setTarget"
    /\ \E fail \in FailChoices :
          IF fail THEN Step(p, Reject(NotLogged(c), "BackendError"), store, TRUE)
          ELSE Step(p, Resolve(Logged(c, "sync", [version |-> c.arg]), Undefined),
                    RollbackStore(store, c.arg), FALSE)

\* NeedsMigration that reports any difference from the current version
NeedsMigration_anyDifference(storedVersion, currentVersion) ==
    IF Truthy(storedVersion)
    THEN compareVersions(storedVersion.v, currentVersion) # 0
    ELSE FALSE

\* storedVersion ? compareVersions(storedVersion, currentVersion) < 0 : false
NeedsMigration(storedVersion, currentVersion) ==
    IF Truthy(storedVersion)
    THEN compareVersions(storedVersion.v, currentVersion) < 0
    ELSE FALSE

\* AvailableMigrations that leaves out the first entry of the registry
AvailableMigrations_dropsFirst(reg) ==
    [i \in 1..(Len(reg) - 1) |->
        [version |-> reg[i + 1].version, description |-> reg[i + 1].body]]

\* migrations.map((m) => ({version, description})): the description of an
\* entry is stood for by the name of its body
AvailableMigrations(reg) ==
    [i \in 1..Len(reg) |-> [version |-> reg[i].version, description |-> reg[i].body]]

\* getMigrationStatus() is called: reads the manifest, awaits getStoredVersion()
getMigrationStatus(p) ==
    /\ CanCall(p)
    /\ Call(p, [NewCall("getMigrationStatus", "status_getStoredVersion")
                   EXCEPT !.currentVersion = getCurrentVersion])

\* the read of the version marker completes and the status object is returned
getMigrationStatus_getStoredVersion(p) ==
    LET c == calls[p]
        storedVersion == getStoredVersion(store)
    IN
    /\ c.op = "getMigrationStatus" /\ c.pc = "status_getStoredVersion"
    /\ \E fail \in FailChoices :
          IF fail THEN Step(p, Reject(c, "BackendError"), store, TRUE)
          ELSE IF Truthy(storedVersion) /\ ~IsString(storedVersion)
          THEN Step(p, Reject([c EXCEPT !.storedVersion = storedVersion], "TypeError"),
                    store, FALSE)
          ELSE Step(p, Resolve([c EXCEPT !.storedVersion = storedVersion],
                               [k |-> "status",
                                v |-> [currentVersion |-> c.currentVersion,
                                       storedVersion |-> storedVersion,
                                       needsMigration |->
                                           NeedsMigration(storedVersion, c.currentVersion),
                                       availableMigrations |->
                                           AvailableMigrations(registry)]]),
                    store, FALSE)

\* a new release of the extension is installed
ExtensionUpdate ==
    /\ updates < MaxUpdates
    /\ \A p \in Procs : calls[p].pc \in {"idle", "done"}
    /\ \E v \in ManifestVersions \ {manifestVersion} :
          /\ compareVersions(v, manifestVersion) > 0
          /\ manifestVersion' = v
    /\ updates' = updates + 1
    /\ UNCHANGED <<store, managerVersion, registry, calls, last, budget, faults>>

\* ------------------------------------------------------ settings manager
SaveInputs == {UserSettings, Obj("edited")}

\* SettingManager.defaultSettings()
defaultSettings == DefaultSettings

\* the marker isInit() and isLatest() read: kv.get('sync', 'version')
ManagerMarker(st) == KvGet(st, "sync", "version")

\* isInit() that takes any marker, absent or not, as initialized
IsInitResult_always(ver) == TRUE

\* isInit(): typeof ver === 'string'
IsInitResult(ver) == IsString(ver)

\* isLatest() that never reports the latest version
IsLatestResult_never(ver, currentVersion) == FALSE

\* isLatest() as a greater-or-equal check with the engine's comparator
IsLatestResult_atLeast(ver, currentVersion) ==
    IsString(ver) /\ compareVersions(ver.v, currentVersion) >= 0

\* isLatest(): ver === this.currentVersion
IsLatestResult(ver, currentVersion) == ver = Str(currentVersion)

\* the spread replaced by fresh defaults
SpreadCopy_defaults(current) == DefaultSettings

\* { ...current }
SpreadCopy(current) == current

\* InitData without the version key
InitData_settingsOnly(s, currentVersion) == [settings |-> s]

\* the data init() passes to kv.setAll
InitData(s, currentVersion) == [settings |-> s, version |-> Str(currentVersion)]

\* UpdateData without the version key
UpdateData_settingsOnly(migrated, currentVersion) == [settings |-> migrated]

\* the data update() passes to kv.setAll
UpdateData(migrated, currentVersion) ==
    [settings |-> migrated, version |-> Str(currentVersion)]

\* load() returns value: to the caller, or into update()'s `current`
LoadReturns(c, value) ==
    IF c.op = "update"
    THEN [c EXCEPT !.current = value, !.pc = "update_setAll", !.via = "none"]
    ELSE Resolve(c, value)

\* this.init() is entered from `via`: the defaults are computed, setAll awaited
EnterInit(c, via) == [c EXCEPT !.pc = "init_setAll", !.via = via]

\* LoadDecide without the check of the stored settings value
LoadDecide_trustsSettings(c, ver) ==
    IF ~Truthy(ver) \/ ~IsString(ver) THEN EnterInit(c, "loadTry")
    ELSE LoadReturns(c, c.raw)

\* LoadDecide that also re-initializes on a marker that is not the current version
LoadDecide_reinitWhenStale(c, ver) ==
    IF ver # Str(managerVersion) THEN EnterInit(c, "loadTry")
    ELSE IF Truthy(c.raw) /\ IsObject(c.raw) THEN LoadReturns(c, c.raw)
    ELSE EnterInit(c, "loadTry")

\* LoadDecide that takes the empty string for a marker
LoadDecide_acceptsEmptyMarker(c, ver) ==
    IF ~IsString(ver) THEN EnterInit(c, "loadTry")
    ELSE IF Truthy(c.raw) /\ IsObject(c.raw) THEN LoadReturns(c, c.raw)
    ELSE EnterInit(c, "loadTry")

\* load(), after both reads
LoadDecide(c, ver) ==
    IF ~Truthy(ver) \/ ~IsString(ver) THEN EnterInit(c, "loadTry")
    ELSE IF Truthy(c.raw) /\ IsObject(c.raw) THEN LoadReturns(c, c.raw)
    ELSE EnterInit(c, "loadTry")

\* load() without the catch: the error reaches the caller
LoadCaught_propagates(c, error) == Reject([c EXCEPT !.thrown = error], error)

\* save() that writes the version key along with the settings
SaveStore_withVersion(st, settings) ==
    KvSetAll(st, "sync", [settings |-> settings, version |-> Str(managerVersion)])

\* load(): catch (error) { return await this.init() }; the caught error is kept
\* in `thrown` ("ReadError" when a kv.get of load() rejected)
LoadCaught(c, error) == EnterInit([c EXCEPT !.thrown = error], "loadCatch")

\* save(): the write kv.set('sync', 'settings', settings) applied to the backend
SaveStore(st, settings) == KvSet(st, "sync", "settings", settings)

load(p) ==
    /\ CanCall(p)
    /\ Call(p, NewCall("load", "load_getSettings"))

save(p) ==
    /\ CanCall(p)
    /\ \E settings \in SaveInputs :
          Call(p, [NewCall("save", "save_set") EXCEPT !.arg = settings])

isInit(p) ==
    /\ CanCall(p)
    /\ Call(p, NewCall("isInit", "isInit_get"))

isLatest(p) ==
    /\ CanCall(p)
    /\ Call(p, NewCall("isLatest", "isLatest_get"))

init(p) ==
    /\ CanCall(p)
    /\ Call(p, EnterInit(NewCall("init", "init_setAll"), "direct"))

update(p) ==
    /\ CanCall(p)
    /\ Call(p, NewCall("update", "update_isInit"))

\* load(): const raw = await kv.get('sync', 'settings')
load_getSettings(p) ==
    LET c == calls[p] IN
    /\ c.pc = "load_getSettings"
    /\ \E fail \in FailChoices :
          IF fail THEN Step(p, LoadCaught(c, "ReadError"), store, TRUE)
          ELSE Step(p, [c EXCEPT !.raw = KvGet(store, "sync", "settings"),
                                 !.pc = "load_getVersion"],
                    store, FALSE)

\* load(): const ver = await kv.get('sync', 'version')
load_getVersion(p) ==
    LET c == calls[p] IN
    /\ c.pc = "load_getVersion"
    /\ \E fail \in FailChoices :
          IF fail THEN Step(p, LoadCaught(c, "ReadError"), store, TRUE)
          ELSE Step(p, LoadDecide(c, KvGet(store, "sync", "version")), store, FALSE)

\* init(): await kv.setAll('sync', {settings: s, version: currentVersion})
init_setAll(p) ==
    LET c == calls[p]
        s == defaultSettings
        data == InitData(s, managerVersion)
    IN
    /\ c.pc = "init_setAll"
    /\ \E fail \in FailChoices :
          IF fail
          THEN IF c.via = "loadTry"
               THEN Step(p, LoadCaught(NotLogged(c), "BackendError"), store, TRUE)
               ELSE Step(p, Reject(NotLogged(c), "BackendError"), store, TRUE)
          ELSE IF c.via \in {"loadTry", "loadCatch"}
          THEN Step(p, LoadReturns(Logged(c, "sync", data), s),
                    KvSetAll(store, "sync", data), FALSE)
          ELSE Step(p, Resolve(Logged(c, "sync", data),
                               IF c.op = "init" THEN s ELSE Undefined),
                    KvSetAll(store, "sync", data), FALSE)

\* save(): await kv.set('sync', 'settings', settings)
save_set(p) ==
    LET c == calls[p] IN
    /\ c.pc = "save_set"
    /\ \E fail \in FailChoices :
          IF fail THEN Step(p, Reject(NotLogged(c), "BackendError"), store, TRUE)
          ELSE Step(p, Resolve(Logged(c, "sync", [settings |-> c.arg]), Undefined),
                    SaveStore(store, c.arg), FALSE)

\* isInit(): const ver = await kv.get('sync', 'version')
isInit_get(p) ==
    LET c == calls[p] IN
    /\ c.pc = "isInit_get"
    /\ \E fail \in FailChoices :
          IF fail THEN Step(p, Reject(c, "BackendError"), store, TRUE)
          ELSE Step(p, Resolve(c, Bool(IsInitResult(ManagerMarker(store)))),
                    store, FALSE)

\* isLatest(): const ver = await kv.get('sync', 'version')
isLatest_get(p) ==
    LET c == calls[p] IN
    /\ c.pc = "isLatest_get"
    /\ \E fail \in FailChoices :
          IF fail THEN Step(p, Reject(c, "BackendError"), store, TRUE)
          ELSE Step(p, Resolve(c, Bool(IsLatestResult(ManagerMarker(store),
                                                      managerVersion))),
                    store, FALSE)

\* update(): const initialized = await this.isInit()
update_isInit(p) ==
    LET c == calls[p] IN
    /\ c.pc = "update_isInit"
    /\ \E fail \in FailChoices :
          IF fail THEN Step(p, Reject(c, "BackendError"), store, TRUE)
          ELSE IF ~IsInitResult(ManagerMarker(store))
          THEN Step(p, EnterInit(c, "update"), store, FALSE)
          ELSE Step(p, [c EXCEPT !.pc = "update_isLatest"], store, FALSE)

\* update(): const latest = await this.isLatest()
update_isLatest(p) ==
    LET c == calls[p] IN
    /\ c.pc = "update_isLatest"
    /\ \E fail \in FailChoices :
          IF fail THEN Step(p, Reject(c, "BackendError"), store, TRUE)
          ELSE IF IsLatestResult(ManagerMarker(store), managerVersion)
          THEN Step(p, Resolve(c, Undefined), store, FALSE)
          ELSE Step(p, [c EXCEPT !.pc = "load_getSettings"], store, FALSE)

\* update(): await kv.setAll('sync', {settings: migrated, version: currentVersion})
update_setAll(p) ==
    LET c == calls[p]
        migrated == SpreadCopy(c.current)
        data == UpdateData(migrated, managerVersion)
    IN
    /\ c.pc = "update_setAll"
    /\ \E fail \in FailChoices :
          IF fail THEN Step(p, Reject(NotLogged(c), "BackendError"), store, TRUE)
          ELSE Step(p, Resolve(Logged(c, "sync", data), Undefined),
                    KvSetAll(store, "sync", data), FALSE)

SettingsStep(p) ==
    \/ load(p)
    \/ save(p)
    \/ isInit(p)
    \/ isLatest(p)
    \/ init(p)
    \/ update(p)
    \/ load_getSettings(p)
    \/ load_getVersion(p)
    \/ init_setAll(p)
    \/ save_set(p)
    \/ isInit_get(p)
    \/ isLatest_get(p)
    \/ update_isInit(p)
    \/ update_isLatest(p)
    \/ update_setAll(p)

EngineStep(p) ==
    \/ runMigrations(p)
    \/ runMigrations_getStoredVersion(p)
    \/ migrate_getDarkMode(p)
    \/ migrate_setDarkMode(p)
    \/ migrate_getUsername(p)
    \/ migrate_setUsername(p)
    \/ migrate_getSettings(p)
    \/ migrate_setSettings(p)
    \/ runMigrations_setVersion(p)
    \/ rollbackVersion(p)
    \/ rollbackVersion_set(p)
    \/ getMigrationStatus(p)
    \/ getMigrationStatus_getStoredVersion(p)

\* the steps of runMigrations() alone
RunStep(p) ==
    \/ runMigrations_getStoredVersion(p)
    \/ migrate_getDarkMode(p)
    \/ migrate_setDarkMode(p)
    \/ migrate_getUsername(p)
    \/ migrate_setUsername(p)
    \/ migrate_getSettings(p)
    \/ migrate_setSettings(p)
    \/ runMigrations_setVersion(p)

NextEngine == EngineStep(1) \/ ExtensionUpdate

SpecEngine == InitEngine /\ [][NextEngine]_vars

Next == EngineStep(1) \/ SettingsStep(1) \/ ExtensionUpdate

Spec == Init /\ [][Next]_vars

\* the engine over a registry with a declarative entry
InitDeclarative ==
    /\ store \in InitStores
    /\ manifestVersion \in ManifestVersions
    /\ managerVersion = V_1_2_0
    /\ registry = migrationsDeclarative
    /\ calls = [p \in Procs |-> IdleCall]
    /\ last = NoLast
    /\ budget = MaxCalls
    /\ faults = 0
    /\ updates = 0

NextDeclarative == runMigrations(1) \/ RunStep(1)

SpecDeclarative == InitDeclarative /\ [][NextDeclarative]_vars

\* ------------------------------------------------- a run and its retry
\* runMigrations() is called at startup (invocation 1) and, after it has
\* rejected, called again at the next startup (invocation 2)
InitRetry ==
    /\ store \in InitStores
    /\ manifestVersion \in ManifestVersions
    /\ managerVersion = V_1_2_0
    /\ registry \in Registries
    /\ calls = [p \in Procs |-> IdleCall]
    /\ last = NoLast
    /\ budget = MaxCalls
    /\ faults = 0
    /\ updates = 0

FirstRun ==
    /\ calls[1].pc = "idle"
    /\ runMigrations(1)

RetryRun ==
    /\ calls[1].pc = "done" /\ calls[1].outcome = "rejected"
    /\ calls[2].pc = "idle"
    /\ runMigrations(2)

NextRetry == FirstRun \/ RunStep(1) \/ RetryRun \/ RunStep(2)

SpecRetry == InitRetry /\ [][NextRetry]_vars

\* ------------------------------------- a run beside the settings manager
\* the background worker has called runMigrations() (invocation 1, in flight)
\* while a page uses the settings manager on the same backend (invocation 2)
InitRunBesideSettings ==
    /\ store \in {st \in InitStores : st.local.darkMode = Undefined}
    /\ manifestVersion \in ManifestVersions
    /\ managerVersion = V_1_2_0
    /\ registry = migrations
    /\ last = NoLast
    /\ budget = MaxPageCalls
    /\ faults = 0
    /\ updates = 0
    /\ calls = [p \in Procs |->
                  IF p = 1
                  THEN [NewCall("runMigrations", "getStoredVersion")
                           EXCEPT !.currentVersion = manifestVersion]
                  ELSE IdleCall]

NextRunBesideSettings == RunStep(1) \/ SettingsStep(2)

SpecRunBesideSettings == InitRunBesideSettings /\ [][NextRunBesideSettings]_vars

\* ------------------------------------------------- successive runs
\* runMigrations() is called at a startup (invocation 1) and at the next one
\* (invocation 2), on a backend that starts without marker; a release may be
\* installed in between
InitRuns ==
    /\ store \in {st \in InitStores : st.sync.version = Undefined}
    /\ manifestVersion \in ManifestVersions
    /\ managerVersion = V_1_2_0
    /\ registry \in Registries
    /\ calls = [p \in Procs |-> IdleCall]
    /\ last = NoLast
    /\ budget = MaxCalls
    /\ faults = 0
    /\ updates = 0

NextRunCall ==
    /\ calls[1].pc = "done"
    /\ calls[2].pc = "idle"
    /\ runMigrations(2)

NextRuns == FirstRun \/ RunStep(1) \/ NextRunCall \/ RunStep(2) \/ ExtensionUpdate

SpecRuns == InitRuns /\ [][NextRuns]_vars

\* ------------------------------------------------ update() beside save()
\* the steps of update() alone, with the load() and init() it awaits
UpdateStep(p) ==
    \/ update_isInit(p)
    \/ update_isLatest(p)
    \/ load_getSettings(p)
    \/ load_getVersion(p)
    \/ init_setAll(p)
    \/ update_setAll(p)

\* a page has called update() (invocation 1, in flight) while another page
\* saves settings on the same backend (invocation 2)
InitUpdateBesideSave ==
    /\ store \in {st \in InitStores : st.local.darkMode = Undefined}
    /\ manifestVersion = V_1_2_0
    /\ managerVersion \in ManagerVersions
    /\ registry = migrations
    /\ last = NoLast
    /\ budget = MaxPageCalls
    /\ faults = 0
    /\ updates = 0
    /\ calls = [p \in Procs |->
                  IF p = 1 THEN NewCall("update", "update_isInit") ELSE IdleCall]

NextUpdateBesideSave == UpdateStep(1) \/ save(2) \/ save_set(2)

SpecUpdateBesideSave == InitUpdateBesideSave /\ [][NextUpdateBesideSave]_vars

\* ------------------------------------------------- the comparator alone
\* version strings handed to compareVersions: releases, a two-part version, a
\* two-digit part, and strings that are not versions
VersionInputs ==
    {V_0_0_0, V_1_0_0, V_1_2, V_1_2_0, V_1_2_1, V_1_10_0, V_2_0_0,
     V_word, V_invalid, EmptyString}

\* the results of compareVersions over the pairs of a triple of versions
CompareResults(a, b, c) ==
    [k |-> "compared",
     v |-> [aa |-> compareVersions(a, a), ab |-> compareVersions(a, b),
            ba |-> compareVersions(b, a), bc |-> compareVersions(b, c),
            ac |-> compareVersions(a, c),
            aParts |-> parseVersion(a), bParts |-> parseVersion(b)]]

\* compareVersions is applied to versions a, b and c; it is synchronous
compareVersionsCall(p) ==
    /\ CanCall(p)
    /\ \E a, b, c \in VersionInputs :
          Call(p, Resolve([NewCall("compareVersions", "done")
                              EXCEPT !.arg = [k |-> "versions", v |-> <<a, b, c>>]],
                          CompareResults(a, b, c)))

InitCompare ==
    /\ store = EmptyStore
    /\ manifestVersion = V_1_2_0
    /\ managerVersion = V_1_2_0
    /\ registry = migrations
    /\ calls = [p \in Procs |-> IdleCall]
    /\ last = NoLast
    /\ budget = 1
    /\ faults = 0
    /\ updates = 0

NextCompare == compareVersionsCall(1)

SpecCompare == InitCompare /\ [][NextCompare]_vars

\* Two extension contexts have each called runMigrations() on the same backend
\* (background worker restarted, or onInstalled racing a startup run): both
\* invocations are in flight and their awaited kv calls interleave freely.
InitConcurrentRuns ==
    /\ store \in InitStores
    /\ manifestVersion \in ManifestVersions
    /\ managerVersion = V_1_2_0
    /\ registry \in Registries
    /\ last = NoLast
    /\ budget = 0
    /\ faults = 0
    /\ updates = 0
    /\ calls = [p \in Procs |->
                  [NewCall("runMigrations", "getStoredVersion")
                      EXCEPT !.currentVersion = manifestVersion]]

NextConcurrentRuns == \E p \in Procs : RunStep(p)

SpecConcurrentRuns == InitConcurrentRuns /\ [][NextConcurrentRuns]_vars

\* The Settings manager used on its own, one call at a time.
InitSettingsManager ==
    /\ store \in {st \in InitStores : st.local.darkMode = Undefined}
    /\ manifestVersion = V_1_2_0
    /\ managerVersion \in ManagerVersions
    /\ registry = migrations
    /\ calls = [p \in Procs |-> IdleCall]
    /\ last = NoLast
    /\ budget = MaxCalls
    /\ faults = 0
    /\ updates = 0

NextSettingsManager == SettingsStep(1)

SpecSettingsManager == InitSettingsManager /\ [][NextSettingsManager]_vars

TypeOK == budget >= 0

\* ================================================================ claims
Range(seq) == {seq[i] : i \in DOMAIN seq}

\* registry entries with stored < version <= current
Gap(reg, stored, current) ==
    {i \in 1..Len(reg) :
        /\ compareVersions(stored, reg[i].version) < 0
        /\ compareVersions(reg[i].version, current) <= 0}

\* registry entries with version <= current
Eligible(reg, current) ==
    {i \in 1..Len(reg) : compareVersions(reg[i].version, current) <= 0}

\* the run of context 1 read a marker that is present and a version string
ReadMarker(c) ==
    c.op = "runMigrations" /\ IsString(c.storedVersion) /\ Truthy(c.storedVersion)

\* the entries the run is to execute, from the marker the backend held when
\* the run was called
SelectedAtStart(c) ==
    LET marker == c.startStore.sync.version IN
    IF ~Truthy(marker) THEN Eligible(registry, c.currentVersion)
    ELSE IF ~IsString(marker) THEN {}
    ELSE Gap(registry, marker.v, c.currentVersion)

\* the writes of the version key the run has applied
MarkerWrites(c) ==
    Cardinality({j \in DOMAIN c.wlog : "version" \in DOMAIN c.wlog[j].data})

\* C1: a run that read a marker below the current version executes only
\* registry entries with stored < version <= current, each once, and when it
\* resolves it has executed all of them and the marker is the current version
C1_UpgradeRunsOnlyTheGap ==
    LET c == calls[1] IN
    (ReadMarker(c) /\ compareVersions(c.storedVersion.v, c.currentVersion) < 0) =>
        /\ Range(c.ran) \subseteq Gap(registry, c.storedVersion.v, c.currentVersion)
        /\ Cardinality(Range(c.ran)) = Len(c.ran)
        /\ c.outcome = "resolved" =>
              /\ Range(c.completed) = Gap(registry, c.storedVersion.v, c.currentVersion)
              /\ store.sync.version = Str(c.currentVersion)

\* an upgrade 1.0.0 -> 1.1.0 has resolved: one entry was run, one was already
\* applied and one is beyond the current version
C1_Witness ==
    LET c == calls[1] IN
    /\ ReadMarker(c) /\ c.outcome = "resolved"
    /\ c.storedVersion = Str(V_1_0_0) /\ c.currentVersion = V_1_1_0
    /\ Len(c.ran) = 1 /\ Len(registry) = 3

\* C2: a run that found no marker executes only entries with version <=
\* current, each once, and when it resolves it has executed all of them and the
\* marker is the current version
C2_FreshInstallRunsAllEligible ==
    LET c == calls[1] IN
    (c.op = "runMigrations" /\ c.storedVersion = Null) =>
        /\ Range(c.ran) \subseteq Eligible(registry, c.currentVersion)
        /\ Cardinality(Range(c.ran)) = Len(c.ran)
        /\ c.outcome = "resolved" =>
              /\ Range(c.completed) = Eligible(registry, c.currentVersion)
              /\ store.sync.version = Str(c.currentVersion)

\* a fresh install at 1.1.0 has resolved: two entries ran, the 1.2.0 entry did not
C2_Witness ==
    LET c == calls[1] IN
    /\ c.op = "runMigrations" /\ c.storedVersion = Null
    /\ c.startStore.sync.version = Undefined
    /\ c.outcome = "resolved" /\ c.currentVersion = V_1_1_0
    /\ Len(c.completed) = 2

\* C3: once a transform has thrown, the run has rejected with that very error,
\* the failing entry is the last one started, and the marker is the one the
\* backend held when the run was called
C3_AbortOnFailure ==
    LET c == calls[1] IN
    (c.op = "runMigrations" /\ c.thrown # "none") =>
        /\ c.pc = "done" /\ c.outcome = "rejected"
        /\ c.error = c.thrown
        /\ Len(c.ran) = Len(c.completed) + 1
        /\ c.completed = SubSeq(c.ran, 1, Len(c.completed))
        /\ store.sync.version = c.startStore.sync.version

\* an upgrade was aborted by its first entry while a later selected entry was
\* still to run
C3_Witness ==
    LET c == calls[1] IN
    /\ c.op = "runMigrations" /\ c.thrown # "none"
    /\ c.branch = "upgrade" /\ c.completed = <<>>
    /\ SelectedAtStart(c) \ Range(c.ran) # {}

\* C4: a run writes the marker at most once, only when every selected entry
\* has completed and none has thrown; while a selected entry is unfinished the
\* marker is not the current version
C4_MarkerCommittedLast ==
    LET c == calls[1] IN
    c.op = "runMigrations" =>
        /\ MarkerWrites(c) <= 1
        /\ MarkerWrites(c) = 1 =>
              /\ c.thrown = "none"
              /\ Range(c.completed) = SelectedAtStart(c)
              /\ c.completed = c.ran
        /\ SelectedAtStart(c) \ Range(c.completed) # {} =>
              store.sync.version # Str(c.currentVersion)

\* the marker was written after three entries had completed
C4_Witness ==
    LET c == calls[1] IN
    /\ c.op = "runMigrations" /\ MarkerWrites(c) = 1
    /\ Len(c.completed) = 3 /\ c.writes = 4

\* C5: a run that read a marker above the current version has resolved with no
\* entry run, no write call issued and the backend as it was
C5_DowngradeIsInert ==
    LET c == calls[1] IN
    (ReadMarker(c) /\ compareVersions(c.storedVersion.v, c.currentVersion) > 0) =>
        /\ c.pc = "done" /\ c.outcome = "resolved"
        /\ c.ran = <<>> /\ c.writes = 0
        /\ store = c.startStore

\* stored 2.0.0 against current 1.2.0
C5_Witness ==
    LET c == calls[1] IN
    /\ ReadMarker(c) /\ c.pc = "done"
    /\ c.storedVersion = Str(V_2_0_0) /\ c.currentVersion = V_1_2_0

\* C6: a run that read a marker comparing equal to the current version, "1.2"
\* against "1.2.0" included, has resolved with no entry run, no write call
\* issued and the backend as it was
C6_NoOpWhenUpToDate ==
    LET c == calls[1] IN
    (ReadMarker(c)
        /\ (\/ compareVersions(c.storedVersion.v, c.currentVersion) = 0
            \/ (c.storedVersion.v = V_1_2 /\ c.currentVersion = V_1_2_0))) =>
        /\ c.pc = "done" /\ c.outcome = "resolved"
        /\ c.ran = <<>> /\ c.writes = 0
        /\ store = c.startStore

\* stored "1.2" against current "1.2.0": the marker keeps its text
C6_Witness ==
    LET c == calls[1] IN
    /\ ReadMarker(c) /\ c.pc = "done"
    /\ c.storedVersion = Str(V_1_2) /\ c.currentVersion = V_1_2_0
    /\ store.sync.version = Str(V_1_2)

\* the run of context 1 directly follows a run with the same current version
SecondRun(c) ==
    /\ c.op = "runMigrations" /\ c.pc = "done"
    /\ c.prev.op = "runMigrations"
    /\ c.prev.currentVersion = c.currentVersion

C8_SequentialRegistryOrder ==
    LET c == calls[1] IN
    c.op = "runMigrations" =>
        /\ \A j \in 1..(Len(c.ran) - 1) : c.ran[j] < c.ran[j + 1]
        /\ Len(c.completed) <= Len(c.ran)
        /\ Len(c.ran) <= Len(c.completed) + 1
        /\ c.completed = SubSeq(c.ran, 1, Len(c.completed))
        /\ Len(c.ran) > Len(c.completed) =>
              c.pc \in {"getDarkMode", "setDarkMode", "getUsername",
                        "setUsername", "getSettings", "setSettings", "done"}

\* with the 1.1.0 entry declared before the 1.0.0 entry, the 1.1.0 entry has
\* completed and the 1.0.0 entry is running
C8_Witness ==
    LET c == calls[1] IN
    /\ c.op = "runMigrations" /\ registry = migrationsUnordered
    /\ c.ran = <<1, 2, 3>> /\ c.completed = <<1, 2>>
    /\ c.pc = "setUsername"

\* C9: once a transform has thrown, every write the run applied before is
\* still in the backend, and the marker is the one the backend held when the
\* run was called
C9_NoCompensationOnFailure ==
    LET c == calls[1] IN
    (c.op = "runMigrations" /\ c.thrown # "none") =>
        /\ \A j \in DOMAIN c.wlog :
              \A key \in DOMAIN c.wlog[j].data :
                  (\A l \in (j + 1)..Len(c.wlog) : key \notin DOMAIN c.wlog[l].data)
                      => store[c.wlog[j].area][key] = c.wlog[j].data[key]
        /\ store.sync.version = c.startStore.sync.version

\* the second selected entry failed after the first had written both defaults
C9_Witness ==
    LET c == calls[1] IN
    /\ c.op = "runMigrations" /\ c.thrown # "none"
    /\ Len(c.completed) >= 1 /\ Len(c.wlog) = 2
    /\ store # c.startStore

\* C10: no step of load, save, init or update changes the stored version the
\* engine reads, and no step of runMigrations or rollbackVersion changes the
\* marker isInit and isLatest read
C10_IndependentMarkers ==
    [][LET c == calls[1] IN
       /\ c.op \in {"load", "save", "init", "update"} =>
             getStoredVersion(store') = getStoredVersion(store)
       /\ c.op \in {"runMigrations", "rollbackVersion"} =>
             ManagerMarker(store') = ManagerMarker(store)]_vars

\* the marker makes runMigrations() select work: absent (falsy), or a version
\* string below the current version
StaleOrAbsent(marker, current) ==
    \/ ~Truthy(marker)
    \/ IsString(marker) /\ compareVersions(marker.v, current) < 0

\* the backend a single runMigrations() that resolves leaves behind, from the
\* backend st it was called on
SingleRunResult(st, reg, current) ==
    LET marker == st.sync.version
        sel == IF ~Truthy(marker) THEN Eligible(reg, current)
               ELSE IF ~IsString(marker) THEN {}
               ELSE Gap(reg, marker.v, current)
        bodies == {reg[i].body : i \in sel}
        Default(old, value) == IF old = Undefined THEN value ELSE old
    IN
    [sync |->
        [version |-> IF StaleOrAbsent(marker, current) THEN Str(current) ELSE marker,
         settings |-> IF "structure" \in bodies
                      THEN Default(st.sync.settings, MigrationSettings)
                      ELSE st.sync.settings],
     local |->
        [darkMode |-> IF "defaults" \in bodies
                      THEN Default(st.local.darkMode, Bool(FALSE))
                      ELSE st.local.darkMode,
         username |-> IF "defaults" \in bodies
                      THEN Default(st.local.username,
                                   Str(<< <<"G", "u", "e", "s", "t">> >>))
                      ELSE st.local.username]]

\* C11: two runMigrations() invocations called on the same backend with a stale
\* or absent marker, their kv calls interleaved in any order: once both have
\* settled and at least one has resolved, the backend (data keys and marker) is
\* what a single resolved invocation from that backend leaves
C11_ConcurrentRunsAreSafe ==
    LET a == calls[1]
        b == calls[2]
    IN
    (/\ a.op = "runMigrations" /\ b.op = "runMigrations"
     /\ a.startStore = b.startStore
     /\ StaleOrAbsent(a.startStore.sync.version, a.currentVersion)
     /\ a.pc = "done" /\ b.pc = "done"
     /\ "resolved" \in {a.outcome, b.outcome}) =>
        store = SingleRunResult(a.startStore, registry, a.currentVersion)

\* both invocations read the same stale marker, both rewrote the same keys and
\* the marker, and both resolved
C11_Witness ==
    LET a == calls[1]
        b == calls[2]
    IN
    /\ a.op = "runMigrations" /\ b.op = "runMigrations"
    /\ a.startStore = b.startStore
    /\ a.storedVersion = b.storedVersion
    /\ StaleOrAbsent(a.startStore.sync.version, a.currentVersion)
    /\ a.outcome = "resolved" /\ b.outcome = "resolved"
    /\ Len(a.wlog) >= 2 /\ Len(b.wlog) >= 2
    /\ MarkerWrites(a) = 1 /\ MarkerWrites(b) = 1
    /\ store # a.startStore

\* the migrate(currentSettings) a manager may carry: the default one, or the
\* override of CustomSettingManager
MigrateHooks == {"default", "override"}

\* what migrate returns: the default returns the settings as they are, the
\* override returns { ...current, count: current.count + 10 }
HookResult(hook, current) ==
    IF hook = "default" \/ ~IsObject(current) THEN current ELSE Obj("countPlus10")

\* the update() of context 1 was called on a marker that is a string and is not
\* the manager's current version
StaleUpdate(c) ==
    /\ c.op = "update"
    /\ IsString(c.startStore.sync.version)
    /\ c.startStore.sync.version # Str(managerVersion)

\* C12: a stale update() that resolves has persisted what the manager's
\* migrate hook returns for the loaded settings, with version = currentVersion,
\* whichever hook the manager carries; with the default hook the persisted
\* settings are the settings stored before
C12_UpdatePersistsMigrateResult ==
    LET c == calls[1] IN
    \A hook \in MigrateHooks :
        (StaleUpdate(c) /\ c.outcome = "resolved") =>
            /\ store.sync = [settings |-> HookResult(hook, c.current),
                             version |-> Str(managerVersion)]
            /\ hook = "default" => store.sync.settings = c.startStore.sync.settings

\* C13 as stated: a stale update() that resolves has issued exactly one write
\* call, carrying the settings and version = currentVersion
C13_StaleUpdateWritesOnce ==
    LET c == calls[1] IN
    (StaleUpdate(c) /\ c.outcome = "resolved") =>
        /\ c.writes = 1
        /\ Len(c.wlog) = 1
        /\ DOMAIN c.wlog[1].data = {"settings", "version"}
        /\ c.wlog[1].data.version = Str(managerVersion)

\* C13: a stale update() that resolves ends with one setAll carrying both the
\* settings it loaded and version = currentVersion, and every write it applied
\* carries both keys; that write is its only write call when the marker is
\* non-empty, the stored settings are an object and load() caught no error;
\* when the marker is empty or the settings are not an object, the init() of
\* load() has written the defaults with the version before it
C13_StaleUpdateEndsWithCombinedWrite ==
    LET c == calls[1]
        marker == c.startStore.sync.version
        stored == c.startStore.sync.settings
        n == Len(c.wlog)
    IN
    (StaleUpdate(c) /\ c.outcome = "resolved") =>
        /\ n \in {1, 2}
        /\ c.wlog[n] = [area |-> "sync",
                        data |-> [settings |-> c.current,
                                  version |-> Str(managerVersion)]]
        /\ \A j \in 1..n : /\ DOMAIN c.wlog[j].data = {"settings", "version"}
                           /\ c.wlog[j].data.version = Str(managerVersion)
        /\ (Truthy(marker) /\ IsObject(stored) /\ c.thrown = "none") =>
              c.writes = 1 /\ c.current = stored
        /\ (~Truthy(marker) \/ ~IsObject(stored)) =>
              /\ n = 2
              /\ c.wlog[1].data.settings = defaultSettings
              /\ c.current = defaultSettings

\* a stale update() over corrupted settings resolved after two writes
C13_Witness ==
    LET c == calls[1] IN
    /\ StaleUpdate(c) /\ c.outcome = "resolved"
    /\ ~IsObject(c.startStore.sync.settings)
    /\ Truthy(c.startStore.sync.version)
    /\ c.writes = 2 /\ Len(c.wlog) = 2

\* C14: an update() called while the stored marker is the manager's current
\* version issues no write call and leaves the backend as it was, and when it
\* has resolved it returned nothing
C14_UpdateWhenLatestIsNoOp ==
    LET c == calls[1] IN
    (c.op = "update" /\ c.startStore.sync.version = Str(managerVersion)) =>
        /\ c.writes = 0
        /\ c.wlog = <<>>
        /\ store = c.startStore
        /\ c.pc \in {"update_isInit", "update_isLatest", "done"}
        /\ c.outcome = "resolved" => c.result = Undefined

\* an update() on a backend already at the current version has resolved
C14_Witness ==
    LET c == calls[1] IN
    /\ c.op = "update" /\ c.outcome = "resolved"
    /\ c.startStore.sync.version = Str(managerVersion)
    /\ IsObject(c.startStore.sync.settings)
    /\ c.writes = 0

\* C15: an update() called on a backend without a version key only awaits
\* isInit() and init(): it never enters load() or the migrate path, its only
\* write call is init()'s, and when it has resolved that one write of
\* {settings: defaults, version: currentVersion} is what the sync area holds
C15_UpdateInitializesWhenUninitialized ==
    LET c == calls[1] IN
    (c.op = "update" /\ c.startStore.sync.version = Undefined) =>
        /\ c.pc \in {"update_isInit", "init_setAll", "done"}
        /\ c.current = Undefined /\ c.raw = Undefined
        /\ c.writes <= 1
        /\ c.outcome = "resolved" =>
              /\ c.writes = 1
              /\ c.wlog = << [area |-> "sync",
                              data |-> [settings |-> defaultSettings,
                                        version |-> Str(managerVersion)]] >>
              /\ store = [c.startStore EXCEPT
                             !.sync = [settings |-> defaultSettings,
                                       version |-> Str(managerVersion)]]
              /\ c.via = "update"

\* an update() on a backend with no version key has resolved after init()
C15_Witness ==
    LET c == calls[1] IN
    /\ c.op = "update" /\ c.outcome = "resolved"
    /\ c.startStore.sync.version = Undefined
    /\ c.startStore.sync.settings = UserSettings
    /\ c.writes = 1
    /\ store.sync.settings = defaultSettings

\* the backend load() was called on has no usable marker (absent, not a string,
\* or empty), or a stored settings value that is not an object
NeedsInit(st) ==
    LET marker == st.sync.version IN
    \/ ~IsString(marker)
    \/ ~Truthy(marker)
    \/ ~IsObject(st.sync.settings)

\* C16: a load() called on a backend with a missing or unusable marker, or with
\* a marker and a settings value that is not an object, never returns the
\* stored value: when it resolves it returns the defaults and the sync area
\* holds the defaults and the current version, and it rejects only when a write
\* call of init() itself failed; a load() that resolved without catching an
\* error has written exactly in those cases
C16_LoadReinitializes ==
    LET c == calls[1] IN
    c.op = "load" =>
        /\ (NeedsInit(c.startStore) /\ c.outcome = "resolved") =>
              /\ c.result = defaultSettings
              /\ store.sync = [settings |-> defaultSettings,
                               version |-> Str(managerVersion)]
              /\ store.local = c.startStore.local
              /\ Len(c.wlog) = 1
        /\ (NeedsInit(c.startStore) /\ c.outcome = "rejected") =>
              /\ c.wlog = <<>>
              /\ c.writes >= 1
        /\ (c.outcome = "resolved" /\ c.thrown = "none") =>
              (c.writes > 0 <=> NeedsInit(c.startStore))

\* a load() over a corrupted settings value under a valid marker returned the
\* defaults
C16_Witness ==
    LET c == calls[1] IN
    /\ c.op = "load" /\ c.outcome = "resolved"
    /\ c.startStore.sync.version = Str(V_1_0_0)
    /\ c.startStore.sync.settings = Num(5)
    /\ c.thrown = "none"
    /\ c.result = defaultSettings
    /\ store.sync.settings = defaultSettings

\* C17: once a kv.get of load() has failed, load() is in init() or has settled:
\* it resolves with the defaults, written with the current version, and the
\* read failure never rejects it (it rejects only when init()'s own write call
\* failed as well)
C17_LoadSuppressesReadFailures ==
    LET c == calls[1] IN
    (c.op = "load" /\ c.thrown = "ReadError") =>
        /\ c.pc \in {"init_setAll", "done"}
        /\ c.pc = "init_setAll" => c.via = "loadCatch" /\ c.outcome = "pending"
        /\ c.outcome = "resolved" =>
              /\ c.result = defaultSettings
              /\ store.sync = [settings |-> defaultSettings,
                               version |-> Str(managerVersion)]
        /\ c.outcome = "rejected" => c.writes = 1 /\ c.wlog = <<>>

\* a read of load() failed on a valid store and load() returned the defaults
C17_Witness ==
    LET c == calls[1] IN
    /\ c.op = "load" /\ c.thrown = "ReadError"
    /\ c.outcome = "resolved"
    /\ ~NeedsInit(c.startStore)
    /\ c.result = defaultSettings
    /\ c.result # c.startStore.sync.settings

\* C18: a load() called on a backend whose marker is a non-empty string and
\* whose settings value is an object, and which caught no error, issues no
\* write call, leaves the backend as it was, and when it has resolved it
\* returned the stored settings value itself, whether or not the marker is the
\* current version
C18_LoadTrustsValidStore ==
    LET c == calls[1] IN
    (c.op = "load" /\ ~NeedsInit(c.startStore) /\ c.thrown = "none") =>
        /\ c.writes = 0
        /\ store = c.startStore
        /\ c.pc \in {"load_getSettings", "load_getVersion", "done"}
        /\ c.pc = "done" =>
              /\ c.outcome = "resolved"
              /\ c.result = c.startStore.sync.settings

\* a load() under a stale marker returned the stored settings
C18_Witness ==
    LET c == calls[1] IN
    /\ c.op = "load" /\ c.outcome = "resolved"
    /\ c.thrown = "none"
    /\ c.startStore.sync.settings = UserSettings
    /\ IsString(c.startStore.sync.version)
    /\ Truthy(c.startStore.sync.version)
    /\ c.startStore.sync.version # Str(managerVersion)
    /\ c.result = UserSettings /\ c.result # defaultSettings

\* C19: a save(settings) that has resolved issued one write call, of the
\* settings key alone with the value it was given, and the backend differs
\* from the one it was called on in that key only; until then, and when it
\* rejects, the backend is unchanged
C19_SaveWritesOnlySettings ==
    LET c == calls[1] IN
    c.op = "save" =>
        /\ c.outcome = "resolved" =>
              /\ c.wlog = << [area |-> "sync", data |-> [settings |-> c.arg]] >>
              /\ c.writes = 1
              /\ store.sync.settings = c.arg
              /\ store.sync.version = c.startStore.sync.version
              /\ store.local = c.startStore.local
        /\ c.outcome # "resolved" => store = c.startStore

\* save() resolved on a backend that has no marker, and on one whose marker is
\* stale, changing the settings
C19_Witness ==
    LET c == calls[1] IN
    /\ c.op = "save" /\ c.outcome = "resolved"
    /\ c.startStore.sync.version \in {Undefined, Str(V_1_0_0)}
    /\ c.startStore.sync.settings # c.arg
    /\ store.sync.settings = c.arg

C21_IsInitChecksMarkerOnly ==
    LET c == calls[1]
        marker == c.startStore.sync.version
    IN
    c.op = "isInit" =>
        /\ c.writes = 0 /\ store = c.startStore
        /\ c.outcome = "resolved" =>
              /\ c.result \in {Bool(TRUE), Bool(FALSE)}
              /\ c.result = Bool(TRUE) <=> marker.k = "str"
              /\ marker \in {Undefined, Null, Num(7)} => c.result = Bool(FALSE)
              /\ marker = Str(EmptyString) => c.result = Bool(TRUE)

\* isInit() returned true over a corrupted settings value
C21_Witness ==
    LET c == calls[1] IN
    /\ c.op = "isInit" /\ c.outcome = "resolved"
    /\ c.startStore.sync.version = Str(V_1_0_0)
    /\ c.startStore.sync.settings = Num(5)
    /\ c.result = Bool(TRUE)

\* C22: init() issues one write call; when it has resolved that call was a
\* single setAll of {settings: defaults, version: currentVersion}, it returned
\* the defaults, and the sync area holds the defaults and the current version
\* whatever it held before; a failed write leaves the backend unchanged
C22_InitResetsToDefaults ==
    LET c == calls[1] IN
    c.op = "init" =>
        /\ c.writes <= 1
        /\ c.outcome = "resolved" =>
              /\ c.writes = 1
              /\ c.wlog = << [area |-> "sync",
                              data |-> [settings |-> DefaultSettings,
                                        version |-> Str(managerVersion)]] >>
              /\ c.result = DefaultSettings
              /\ store.sync = [settings |-> DefaultSettings,
                               version |-> Str(managerVersion)]
              /\ store.local = c.startStore.local
        /\ c.outcome # "resolved" => store = c.startStore

\* init() resolved over user settings and a marker of another version
C22_Witness ==
    LET c == calls[1] IN
    /\ c.op = "init" /\ c.outcome = "resolved"
    /\ c.startStore.sync.settings = UserSettings
    /\ IsString(c.startStore.sync.version)
    /\ c.startStore.sync.version # Str(managerVersion)
    /\ store.sync.settings = DefaultSettings
    /\ store.sync.version = Str(managerVersion)

\* C23: a getMigrationStatus() that has resolved reports needsMigration = true
\* exactly when the marker is present and compares below the manifest version:
\* false on a fresh install (no marker, or an empty one), when the marker
\* equals the current version and when it is above it; currentVersion is the
\* manifest version read when the call was made and storedVersion the marker
\* (null when there is none)
C23_StatusNeedsMigration ==
    LET c == calls[1]
        marker == c.startStore.sync.version
        current == c.currentVersion
        status == c.result.v
    IN
    c.op = "getMigrationStatus" =>
        /\ c.outcome = "pending" => current = manifestVersion
        /\ c.outcome = "resolved" =>
              /\ c.result.k = "status"
              /\ status.currentVersion = current
              /\ status.storedVersion = (IF marker \in {Undefined, Str(EmptyString)}
                                         THEN Null ELSE marker)
              /\ status.needsMigration \in BOOLEAN
              /\ status.needsMigration <=>
                    /\ marker \notin {Undefined, Str(EmptyString)}
                    /\ compareVersions(marker.v, current) < 0
              /\ marker \in {Undefined, Str(current), Str(V_2_0_0)} =>
                    ~status.needsMigration

\* the status reported a pending migration for a marker below the manifest
\* version
C23_Witness ==
    LET c == calls[1] IN
    /\ c.op = "getMigrationStatus" /\ c.outcome = "resolved"
    /\ c.startStore.sync.version = Str(V_1_0_0)
    /\ c.result.v.needsMigration
    /\ c.result.v.storedVersion = Str(V_1_0_0)

\* C24: getMigrationStatus() issues no write and leaves the backend as it was
\* in every state of the call, whatever ran before it; when it has resolved,
\* availableMigrations lists every entry of the registry, in registry order,
\* whatever the marker is
C24_StatusIsReadOnly ==
    LET c == calls[1] IN
    c.op = "getMigrationStatus" =>
        /\ c.writes = 0 /\ c.wlog = <<>>
        /\ store = c.startStore
        /\ c.outcome = "resolved" =>
              LET available == c.result.v.availableMigrations IN
              /\ Len(available) = Len(registry)
              /\ \A i \in 1..Len(registry) :
                    available[i].version = registry[i].version

\* the status was taken before any migration ran and lists the three entries
\* although the marker is already the current version
C24_Witness ==
    LET c == calls[1] IN
    /\ c.op = "getMigrationStatus" /\ c.outcome = "resolved"
    /\ c.prev = NoLast
    /\ c.startStore.sync.version = Str(manifestVersion)
    /\ Len(c.result.v.availableMigrations) = 3
    /\ store = c.startStore

\* C25: a rollbackVersion(target) that has resolved issued one write call, of
\* the version key alone, the marker is the target, and every other key of
\* every area holds what it held at the call; no registry entry was started;
\* until then, and when the write fails, the backend is unchanged
C25_RollbackWritesOnlyMarker ==
    LET c == calls[1] IN
    c.op = "rollbackVersion" =>
        /\ c.ran = <<>> /\ c.completed = <<>>
        /\ c.outcome = "resolved" =>
              /\ c.wlog = << [area |-> "sync", data |-> [version |-> c.arg]] >>
              /\ c.writes = 1
              /\ store.sync.version = c.arg
              /\ store.sync.settings = c.startStore.sync.settings
              /\ store.local = c.startStore.local
        /\ c.outcome # "resolved" => store = c.startStore

\* a rollback to 1.0.0 resolved on a backend the migrations had filled
C25_Witness ==
    LET c == calls[1] IN
    /\ c.op = "rollbackVersion" /\ c.outcome = "resolved"
    /\ c.arg = Str(V_1_0_0)
    /\ c.startStore.sync.version = Str(V_1_2_0)
    /\ c.startStore.sync.settings = MigrationSettings
    /\ c.startStore.local.darkMode = Bool(FALSE)
    /\ store.sync.settings = MigrationSettings
    /\ store.sync.version = Str(V_1_0_0)

\* the run of context 1 directly follows a rollbackVersion(t) that resolved,
\* with t below the current version
AfterRollback(c) ==
    /\ c.op = "runMigrations"
    /\ c.prev.op = "rollbackVersion" /\ c.prev.outcome = "resolved"
    /\ c.startStore = c.prev.store
    /\ compareVersions(c.prev.store.sync.version.v, c.currentVersion) < 0

\* C26: the runMigrations() that follows a rollbackVersion(t) with t below the
\* current version takes the upgrade branch once it has read the marker,
\* starts only entries with t < version <= current, none twice, and when it
\* has resolved it has completed exactly those and the marker is the current
\* version again
C26_RollbackRearmsUpgrade ==
    LET c == calls[1]
        t == c.prev.store.sync.version.v
    IN
    AfterRollback(c) =>
        /\ c.storedVersion # Undefined =>
              c.storedVersion = Str(t) /\ c.branch = "upgrade"
        /\ Range(c.ran) \subseteq Gap(registry, t, c.currentVersion)
        /\ \A i, j \in DOMAIN c.ran : i # j => c.ran[i] # c.ran[j]
        /\ c.outcome = "resolved" =>
              /\ Range(c.completed) = Gap(registry, t, c.currentVersion)
              /\ store.sync.version = Str(c.currentVersion)
              /\ MarkerWrites(c) = 1

\* after a first run had written the settings structure, a rollback to 1.0.0
\* made the next run execute the 1.1.0 entry again and restore the marker
C26_Witness ==
    LET c == calls[1] IN
    /\ AfterRollback(c) /\ c.outcome = "resolved"
    /\ c.prev.store.sync.version = Str(V_1_0_0)
    /\ c.startStore.sync.settings = MigrationSettings
    /\ \E i \in Range(c.completed) : registry[i].body = "structure"
    /\ store.sync.version = Str(c.currentVersion)

\* C27: over every triple of version strings, malformed ones included, the
\* results of compareVersions are in {-1, 0, 1}, a version compares equal to
\* itself, swapping the arguments negates the result, and a <= b with b <= c
\* gives a <= c
C27_CompareIsTotalPreorder ==
    LET c == calls[1]
        r == c.result.v
    IN
    c.op = "compareVersions" =>
        /\ {r.aa, r.ab, r.ba, r.bc, r.ac} \subseteq {-1, 0, 1}
        /\ r.aa = 0
        /\ r.ab = -r.ba
        /\ (r.ab <= 0 /\ r.bc <= 0) => r.ac <= 0
        /\ (r.ab = 0 /\ r.bc = 0) => r.ac = 0

\* "1.2" <= "1.2.0" <= "1.2.1" with the first two equal and the last two not,
\* and a malformed string below a release
C27_Witness ==
    LET c == calls[1] IN
    /\ c.op = "compareVersions"
    /\ c.arg.v \in {<<V_1_2, V_1_2_0, V_1_2_1>>, <<V_word, V_invalid, V_1_0_0>>}
    /\ c.result.v.ab <= 0 /\ c.result.v.bc = -1 /\ c.result.v.ac = -1

\* parts zero-padded to length n
Padded(parts, n) == [i \in 1..n |-> IF i <= Len(parts) THEN parts[i] ELSE 0]

\* the sign of the first pair that differs in two sequences of equal length,
\* 0 when none differs
SignOfFirstDifference(x, y) ==
    LET differing == {i \in DOMAIN x : x[i] # y[i]} IN
    IF differing = {} THEN 0
    ELSE LET first == CHOOSE i \in differing : \A j \in differing : i <= j
         IN IF x[first] < y[first] THEN -1 ELSE 1

\* the segment does not begin with an integer
NonNumeric(segment) ==
    \/ segment = <<>>
    \/ segment[1] \notin {"0", "1", "2", "3", "4", "5", "6", "7", "8", "9", "+", "-"}

\* C28: compareVersions(a, b) is the sign of the first pair that differs once
\* the two parsed sequences are zero-padded to the longer length, 0 when none
\* differs; a segment that does not begin with a number is parsed as 0; "1.2"
\* equals "1.2.0", "invalid" equals "0.0.0", and "1.10.0" is above "1.2.0"
C28_CompareIsSignOfFirstDifference ==
    LET c == calls[1]
        a == c.arg.v[1]
        b == c.arg.v[2]
        r == c.result.v
        n == IF Len(a) > Len(b) THEN Len(a) ELSE Len(b)
    IN
    c.op = "compareVersions" =>
        /\ Len(r.aParts) = Len(a)
        /\ \A i \in DOMAIN a : NonNumeric(a[i]) => r.aParts[i] = 0
        /\ r.ab = SignOfFirstDifference(Padded(r.aParts, n), Padded(r.bParts, n))
        /\ (a = V_1_2 /\ b = V_1_2_0) => r.ab = 0
        /\ (a = V_word /\ b = V_0_0_0) => r.ab = 0
        /\ (a = V_1_10_0 /\ b = V_1_2_0) => r.ab = 1
        /\ (a = V_1_2 /\ b = V_1_2_1) => r.ab = -1

\* "invalid" was compared with "0.0.0" and found equal
C28_Witness ==
    LET c == calls[1] IN
    /\ c.op = "compareVersions"
    /\ c.arg.v[1] = V_word /\ c.arg.v[2] = V_0_0_0
    /\ c.result.v.aParts = <<0>>
    /\ c.result.v.bParts = <<0, 0, 0>>
    /\ c.result.v.ab = 0

\* C29: a run that has resolved after completing the entry whose transform
\* returns a MigrationResult has applied it: every declared key holds its
\* declared value and a key declared undefined is absent
C29_DeclaredResultApplied ==
    LET c == calls[1] IN
    (/\ c.op = "runMigrations" /\ c.outcome = "resolved"
     /\ \E i \in Range(c.completed) : registry[i].body = "declared") =>
        \A area \in DOMAIN DeclaredResult :
            \A key \in DOMAIN DeclaredResult[area] :
                KvGet(store, area, key) = DeclaredResult[area][key]

\* C30: when a run has rejected, the marker is the one it was called on; the
\* run called next selects the same entries again, and when it resolves it
\* has executed again every entry the failed run had completed and the
\* backend is what a run that never failed leaves from the original backend
C30_RetryStartsOver ==
    LET a == calls[1]
        b == calls[2]
    IN
    (a.op = "runMigrations" /\ a.outcome = "rejected") =>
        /\ b.op = "idle" => store.sync.version = a.startStore.sync.version
        /\ b.op = "runMigrations" =>
              /\ b.startStore.sync.version = a.startStore.sync.version
              /\ b.currentVersion = a.currentVersion
              /\ SelectedAtStart(b) = SelectedAtStart(a)
              /\ Range(b.ran) \subseteq SelectedAtStart(a)
              /\ b.outcome = "resolved" =>
                    /\ Range(a.completed) \subseteq Range(b.completed)
                    /\ Range(b.completed) = SelectedAtStart(a)
                    /\ store = SingleRunResult(a.startStore, registry,
                                               a.currentVersion)

\* the first run failed after completing an entry and writing a key; the
\* retry executed that entry again and resolved
C30_Witness ==
    LET a == calls[1]
        b == calls[2]
    IN
    /\ a.op = "runMigrations" /\ a.outcome = "rejected"
    /\ a.thrown # "none"
    /\ Len(a.completed) >= 1 /\ Len(a.wlog) >= 1
    /\ b.op = "runMigrations" /\ b.outcome = "resolved"
    /\ Range(a.completed) \subseteq Range(b.completed)
    /\ Len(b.completed) > Len(a.completed)
    /\ store.sync.version = Str(a.currentVersion)

\* C31: an update() called on a marker above the manager's current version
\* does not stop at isLatest(): when it has resolved it has written the
\* settings it loaded together with the (older) current version, so the marker
\* has gone down; a runMigrations() that read a marker above the manifest
\* version never writes
C31_SettingsPathHasNoDowngradeGuard ==
    LET c == calls[1]
        marker == c.startStore.sync.version
    IN
    /\ (/\ c.op = "update" /\ c.outcome = "resolved"
        /\ IsString(marker) /\ compareVersions(marker.v, managerVersion) > 0) =>
          /\ Len(c.wlog) >= 1
          /\ c.wlog[Len(c.wlog)].data = [settings |-> c.current,
                                         version |-> Str(managerVersion)]
          /\ store.sync.version = Str(managerVersion)
          /\ compareVersions(store.sync.version.v, marker.v) < 0
    /\ (/\ ReadMarker(c)
        /\ compareVersions(c.storedVersion.v, c.currentVersion) > 0) =>
          /\ c.writes = 0
          /\ store = c.startStore

\* update() under current version 1.2.0 resolved on a backend marked 2.0.0: the
\* user's settings were written back and the marker is 1.2.0
C31_Witness ==
    LET c == calls[1] IN
    /\ c.op = "update" /\ c.outcome = "resolved"
    /\ c.startStore.sync.version = Str(V_2_0_0)
    /\ c.startStore.sync.settings = UserSettings
    /\ managerVersion = V_1_2_0
    /\ c.writes = 1
    /\ store.sync = [settings |-> UserSettings, version |-> Str(V_1_2_0)]

\* C32: a runMigrations() called on a backend without marker, with the
\* settings manager used beside it in any interleaving, has completed every
\* registry entry with version <= current when it has resolved
C32_FreshInstallSurvivesSettingsManager ==
    LET a == calls[1] IN
    (/\ a.op = "runMigrations" /\ a.outcome = "resolved"
     /\ a.startStore.sync.version = Undefined) =>
        Range(a.completed) = Eligible(registry, a.currentVersion)

\* the registry entries some run has completed
CompletedSoFar == Range(calls[1].completed) \cup Range(calls[2].completed)

\* C33: from a backend without marker, in every state reached by successive
\* runs (under successive manifest versions, failing or not), every registry
\* entry whose version is <= the stored marker has been completed by some run
C33_MarkerMeansFullyApplied ==
    LET marker == store.sync.version IN
    (IsString(marker) /\ Truthy(marker)) =>
        \A i \in 1..Len(registry) :
            compareVersions(registry[i].version, marker.v) <= 0 =>
                i \in CompletedSoFar

\* a first run failed after completing an entry, a release was installed, and
\* the second run brought the marker to 1.2.0 with all three entries completed
C33_Witness ==
    /\ calls[1].outcome = "rejected" /\ calls[1].thrown # "none"
    /\ calls[2].outcome = "resolved"
    /\ updates = 1
    /\ store.sync.version = Str(V_1_2_0)
    /\ CompletedSoFar = {1, 2, 3}

\* C34: while and after a runMigrations() the marker is the one the run was
\* called on or the current version; a marker that was a version string never
\* compares below what it was; after a run that resolved the marker compares
\* at or above the current version, and it is unchanged exactly when the run
\* found it up to date or ahead
C34_MonotoneMarker ==
    LET c == calls[1]
        before == c.startStore.sync.version
        marker == store.sync.version
    IN
    c.op = "runMigrations" =>
        /\ marker \in {before, Str(c.currentVersion)}
        /\ (IsString(before) /\ Truthy(before)) =>
              compareVersions(marker.v, before.v) >= 0
        /\ c.outcome = "resolved" =>
              /\ IsString(marker)
              /\ compareVersions(marker.v, c.currentVersion) >= 0
              /\ c.branch \in {"same", "downgrade"} => marker = before
              /\ c.branch \in {"fresh", "upgrade"} => marker = Str(c.currentVersion)

\* a run under manifest 1.1.0 resolved on a backend marked 1.2.0 and left the
\* marker
C34_Witness ==
    LET c == calls[1] IN
    /\ c.op = "runMigrations" /\ c.outcome = "resolved"
    /\ c.currentVersion = V_1_1_0
    /\ c.startStore.sync.version = Str(V_1_2_0)
    /\ store.sync.version = Str(V_1_2_0)
    /\ c.branch = "downgrade"

\* update() of invocation 1 was called on a stale, non-empty marker, save(s)
\* ran beside it, and both have resolved
UpdateAndSaveResolved ==
    LET a == calls[1]
        b == calls[2]
    IN
    /\ StaleUpdate(a) /\ Truthy(a.startStore.sync.version)
    /\ a.outcome = "resolved"
    /\ b.op = "save" /\ b.outcome = "resolved"

\* C35 as stated: after a stale update() and a save(s) beside it have both
\* resolved, the stored settings are s (the default migration of s is s)
C35_NoLostSettingsUpdate ==
    UpdateAndSaveResolved => store.sync.settings = calls[2].arg

\* C35: after a stale update() and a save(s) beside it have both resolved, the
\* stored settings are s or the value update() had loaded, and the marker is
\* the current version; they are s when update() read s from the backend
C35_SaveKeptOrOverwrittenByLoadedValue ==
    LET a == calls[1]
        b == calls[2]
    IN
    UpdateAndSaveResolved =>
        /\ store.sync.settings \in {b.arg, a.current}
        /\ (a.raw = b.arg /\ a.thrown = "none") => store.sync.settings = b.arg
        /\ store.sync.version = Str(managerVersion)
        /\ store.local = a.startStore.local

\* save(s) landed between update()'s read of the settings and its write: both
\* resolved and the stored settings are the older value update() had read
C35_Witness ==
    LET a == calls[1]
        b == calls[2]
    IN
    /\ UpdateAndSaveResolved
    /\ a.thrown = "none"
    /\ a.raw = a.startStore.sync.settings
    /\ a.raw # b.arg
    /\ store.sync.settings = a.raw

\* the data keys the registered migrations write
DataKeys == {<<"local", "darkMode">>, <<"local", "username">>, <<"sync", "settings">>}

\* C36 as stated: no step of the run replaces a value that a data key holds,
\* whether it was set before the run or by another context during it
C36_MigrationsNeverClobber ==
    [][calls[1]' # calls[1] =>
          \A k \in DataKeys :
              store[k[1]][k[2]] # Undefined =>
                  store'[k[1]][k[2]] = store[k[1]][k[2]]]_vars

\* C36: every write of a data key by the run is to a key that was absent when
\* the run was called: a value set before the run is never written over by
\* the run, whatever another context does meanwhile
C36_MigrationsKeepValuesSetBefore ==
    LET a == calls[1] IN
    a.op = "runMigrations" =>
        \A j \in DOMAIN a.wlog :
            \A key \in DOMAIN a.wlog[j].data \ {"version"} :
                /\ <<a.wlog[j].area, key>> \in DataKeys
                /\ a.startStore[a.wlog[j].area][key] = Undefined

\* a fresh-install run completed the 1.1.0 entry on a backend that held the
\* user's settings and resolved without a write to the settings key
C36_Witness ==
    LET a == calls[1] IN
    /\ a.op = "runMigrations" /\ a.outcome = "resolved"
    /\ a.branch = "fresh"
    /\ a.startStore.sync.settings = UserSettings
    /\ \E i \in Range(a.completed) : registry[i].body = "structure"
    /\ \A j \in DOMAIN a.wlog : "settings" \notin DOMAIN a.wlog[j].data
    /\ Len(a.wlog) >= 2
    /\ calls[2].op = "idle"
    /\ store.sync.settings = UserSettings

\* the load() of context 1 directly follows a save(s) that resolved
LoadAfterSave(c) ==
    /\ c.op = "load"
    /\ c.prev.op = "save" /\ c.prev.outcome = "resolved"
    /\ c.startStore = c.prev.store

\* C37: a load() that follows a resolved save(s) of an object s and resolves
\* without having caught an error returns s, and writes nothing, exactly when
\* the marker is a non-empty string; otherwise (marker absent, not a string,
\* or empty) it returns the defaults and the stored settings are the defaults
C37_SaveLoadRoundTrip ==
    LET c == calls[1]
        s == c.startStore.sync.settings
        marker == c.startStore.sync.version
        usable == marker.k = "str" /\ marker # Str(EmptyString)
    IN
    (LoadAfterSave(c) /\ c.outcome = "resolved" /\ c.thrown = "none") =>
        /\ s \in SaveInputs
        /\ (c.result = s /\ c.writes = 0) <=> usable
        /\ usable => store = c.startStore
        /\ ~usable =>
              /\ c.result = DefaultSettings
              /\ store.sync.settings = DefaultSettings
              /\ store.sync.settings # s
              /\ store.sync.version = Str(managerVersion)

\* save(s) then load() on a backend without marker: load() returned the
\* defaults and the saved value is gone
C37_Witness ==
    LET c == calls[1] IN
    /\ LoadAfterSave(c) /\ c.outcome = "resolved" /\ c.thrown = "none"
    /\ c.startStore.sync.version = Undefined
    /\ c.startStore.sync.settings = Obj("edited")
    /\ c.result = DefaultSettings
    /\ store.sync.settings = DefaultSettings

\* the runMigrations() of context 1 directly follows a getMigrationStatus()
\* that resolved under the same manifest version on the same backend
RunAfterStatus(c) ==
    /\ c.op = "runMigrations"
    /\ c.prev.op = "getMigrationStatus" /\ c.prev.outcome = "resolved"
    /\ c.prev.currentVersion = c.currentVersion
    /\ c.startStore = c.prev.store

\* needsMigration as the status that preceded the run reported it
ReportedNeedsMigration(c) ==
    NeedsMigration(getStoredVersion(c.prev.store), c.prev.currentVersion)

\* C38 as stated: after a status with needsMigration = false, the run that
\* follows starts no migration and issues no write
C38_StatusAgreesWithRun ==
    LET c == calls[1] IN
    (RunAfterStatus(c) /\ ~ReportedNeedsMigration(c)) =>
        /\ c.ran = <<>>
        /\ c.writes = 0

\* C38: after a status with needsMigration = false and a stored version, the
\* run that follows starts no migration, issues no write and leaves the
\* backend as it was; after a status with needsMigration = false and no
\* stored version, the run that follows and resolves has completed every
\* entry with version <= current and written the marker
C38_StatusWithMarkerAgreesWithRun ==
    LET c == calls[1]
        storedVersion == getStoredVersion(c.startStore)
    IN
    (RunAfterStatus(c) /\ ~ReportedNeedsMigration(c)) =>
        /\ storedVersion # Null =>
              /\ c.ran = <<>>
              /\ c.writes = 0
              /\ store = c.startStore
        /\ (storedVersion = Null /\ c.outcome = "resolved") =>
              /\ Range(c.completed) = Eligible(registry, c.currentVersion)
              /\ store.sync.version = Str(c.currentVersion)
              /\ c.writes >= 1

\* the status reported no pending migration for a marker above the manifest
\* version and the run that followed resolved without a write
C38_Witness ==
    LET c == calls[1] IN
    /\ RunAfterStatus(c) /\ ~ReportedNeedsMigration(c)
    /\ c.outcome = "resolved"
    /\ c.startStore.sync.version = Str(V_1_2_0)
    /\ c.currentVersion = V_1_1_0
    /\ c.ran = <<>> /\ c.writes = 0

\* the call of context 1 directly follows an update() that resolved, on the
\* backend that update() left
AfterUpdate(c) ==
    /\ c.prev.op = "update" /\ c.prev.outcome = "resolved"
    /\ c.startStore = c.prev.store

\* what update() establishes apart from the settings value: once it has
\* resolved the marker is one isInit() and isLatest() accept; an isInit() or
\* isLatest() that follows it and resolves returns true; an update() that
\* follows it issues no write and leaves the backend as it was
UpdateEstablishesMarker(c) ==
    /\ (c.op = "update" /\ c.outcome = "resolved") =>
          /\ IsInitResult(ManagerMarker(store))
          /\ IsLatestResult(ManagerMarker(store), managerVersion)
    /\ (c.op \in {"isInit", "isLatest"} /\ AfterUpdate(c) /\ c.outcome = "resolved") =>
          c.result = Bool(TRUE)
    /\ (c.op = "update" /\ AfterUpdate(c)) =>
          c.writes = 0 /\ store = c.startStore

\* C39 as stated: from any backend state, after update() has resolved,
\* isInit() and isLatest() return true, a second update() issues no write, and
\* the stored settings value is an object
C39_UpdateEstablishesLatest ==
    LET c == calls[1] IN
    /\ UpdateEstablishesMarker(c)
    /\ (c.op = "update" /\ c.outcome = "resolved") => IsObject(store.sync.settings)

\* C39: from any backend state, after update() has resolved, isInit() and
\* isLatest() return true and a second update() issues no write; the stored
\* settings value is an object unless update() found the marker already equal
\* to the current version, in which case it wrote nothing and the settings
\* value is whatever was stored
C39_UpdateEstablishesLatestMarker ==
    LET c == calls[1]
        wasLatest == c.startStore.sync.version = Str(managerVersion)
    IN
    /\ UpdateEstablishesMarker(c)
    /\ (c.op = "update" /\ c.outcome = "resolved") =>
          /\ ~wasLatest => IsObject(store.sync.settings) /\ c.writes >= 1
          /\ wasLatest => c.writes = 0 /\ store = c.startStore

\* update() resolved on a backend with a stale marker and a settings value that
\* is not an object, and left the defaults under the current version
C39_Witness ==
    LET c == calls[1] IN
    /\ c.op = "update" /\ c.outcome = "resolved"
    /\ c.startStore.sync = [version |-> Str(V_1_0_0), settings |-> Num(5)]
    /\ store.sync = [settings |-> DefaultSettings, version |-> Str(managerVersion)]

====
